---- MODULE Spec2Model ----
(***************************************************************************)
(* A model of the rustdoc-JSON visitor of cargo-check-external-types       *)
(* (src/src/visitor.rs).  The recursive descent of Visitor::visit_all is   *)
(* modelled with an explicit call stack: every entry of `stack` is one     *)
(* pending call (function, path, usage tag, argument), the head being the  *)
(* call that runs next.  One action models one function of the visitor:    *)
(* it pops the call and pushes, in source order, the calls its body makes. *)
(***************************************************************************)
EXTENDS Integers, Sequences, FiniteSets, TLC

(***************************************************************************)
(* Bounds of the model.                                                    *)
(***************************************************************************)
\* largest number of items listed directly in the crate root module
MaxMembers == 2
\* the depth of recursion the thread's stack has room for: the largest number
\* of path components a visit_item call may be entered with
MaxDepth == 6

(***************************************************************************)
(* rustdoc_types values.  An Id is the string "<crate>:<n>", kept as the   *)
(* pair <<crate, n>>; Option::None of an Id is the empty sequence.         *)
(***************************************************************************)
NoId == <<>>
NoType == [k |-> "None"]
NoArgs == [k |-> "None"]

NoGenerics == [params |-> <<>>, where_predicates |-> <<>>]

ResolvedPath(id) == [k |-> "ResolvedPath", id |-> id, args |-> NoArgs, param_names |-> <<>>]
ResolvedPathArgs(id, args, param_names) ==
    [k |-> "ResolvedPath", id |-> id, args |-> args, param_names |-> param_names]
GenericType == [k |-> "Generic"]
PrimitiveType == [k |-> "Primitive"]
TraitBound(trait_, generic_params) ==
    [k |-> "TraitBound", trait_ |-> trait_, generic_params |-> generic_params]
Outlives == [k |-> "Outlives"]
FnDecl(inputs, output) == [inputs |-> inputs, output |-> output]
Arg(name, type_) == [name |-> name, type_ |-> type_]

\* the ids the catalogue of items uses
RootId == <<0, 0>>
ExtRootId == <<1, 0>>
Widget == <<1, 1>>
Gadget == <<1, 2>>
ExtFn == <<1, 3>>
Unresolved == <<1, 9>>
LocalNoSummary == <<0, 90>>
Missing == <<0, 99>>
FnF == <<0, 1>>
StructS == <<0, 2>>
EnumE == <<0, 3>>
TraitT == <<0, 4>>
ModInner == <<0, 5>>
ReExportInner == <<0, 6>>
ModM == <<0, 7>>
ImportW == <<0, 8>>
BadStatic == <<0, 9>>
ModUnstable == <<0, 10>>
ReExportAlias == <<0, 11>>
ModCyc == <<0, 12>>
TypedefInfer == <<0, 13>>
Inner == <<0, 50>>
BlanketImpl == <<0, 23>>
InherentImpl == <<0, 24>>
TraitImpl == <<0, 25>>

\* an item of the root crate (Item.crate_id = 0) without a span
Mk(id, name, visibility, inner) ==
    [id |-> id, crate_id |-> 0, name |-> name, span |-> 0,
     visibility |-> visibility, inner |-> inner]

\* a type that exercises the composite shapes of Type
ComplexType ==
    [k |-> "Tuple", types |-> <<
        [k |-> "Slice", type_ |-> ResolvedPath(Widget)],
        [k |-> "Array", type_ |-> PrimitiveType],
        [k |-> "RawPointer", type_ |-> GenericType],
        [k |-> "BorrowedRef", type_ |->
            [k |-> "ImplTrait", bounds |-> <<TraitBound(ResolvedPath(Gadget), <<>>), Outlives>>]],
        [k |-> "QualifiedPath", self_type |-> GenericType, trait_ |-> ResolvedPath(Gadget)],
        [k |-> "FunctionPointer",
         decl |-> FnDecl(<<Arg("cb", ResolvedPath(Widget))>>, NoType),
         generic_params |-> <<[kind |-> "Lifetime"]>>],
        ResolvedPathArgs(Gadget,
            [k |-> "AngleBracketed",
             args |-> <<[k |-> "Type", type_ |-> ResolvedPath(Widget)], [k |-> "Lifetime"]>>,
             bindings |-> <<[k |-> "Equality", term |-> [k |-> "Type", type_ |-> ResolvedPath(Gadget)]],
                            [k |-> "Equality", term |-> [k |-> "Constant"]],
                            [k |-> "Constraint", bounds |-> <<Outlives>>]>>],
            <<Outlives>>),
        ResolvedPathArgs(LocalNoSummary,
            [k |-> "Parenthesized", inputs |-> <<ResolvedPath(Widget)>>, output |-> ResolvedPath(Gadget)],
            <<>>)
    >>]

\* generics that exercise every kind of parameter and where-predicate
ComplexGenerics ==
    [params |-> <<
        [kind |-> "Type", bounds |-> <<TraitBound(ResolvedPath(Gadget), <<>>)>>, default |-> ResolvedPath(Widget)],
        [kind |-> "Const", type_ |-> PrimitiveType],
        [kind |-> "Lifetime"]>>,
     where_predicates |-> <<
        [k |-> "BoundPredicate", type_ |-> GenericType, bounds |-> <<Outlives>>, generic_params |-> <<>>],
        [k |-> "RegionPredicate", bounds |-> <<Outlives>>],
        [k |-> "EqPredicate", lhs |-> ResolvedPath(Widget)]>>]

\* generics of the blanket implementation: they name an identity without a summary
BlanketGenerics ==
    [params |-> <<[kind |-> "Type", bounds |-> <<TraitBound(ResolvedPath(Unresolved), <<>>)>>, default |-> NoType]>>,
     where_predicates |-> <<>>]

\* generics of the struct S: one type parameter bounded by a trait of another crate
StructGenerics ==
    [params |-> <<[kind |-> "Type", bounds |-> <<TraitBound(ResolvedPath(Gadget), <<>>)>>, default |-> NoType]>>,
     where_predicates |-> <<>>]

\* generics of an implementation block: one bounded type parameter
ImplGenerics ==
    [params |-> <<[kind |-> "Type", bounds |-> <<TraitBound(ResolvedPath(Widget), <<>>)>>, default |-> NoType]>>,
     where_predicates |-> <<>>]

(***************************************************************************)
(* The items of the index other than the two modules tagged per run.       *)
(***************************************************************************)
StaticItems == {
    Mk(FnF, "f", "Public", [k |-> "Function",
        decl |-> FnDecl(<<Arg("x", ResolvedPath(Widget))>>, NoType), generics |-> NoGenerics]),
    [id |-> ExtFn, crate_id |-> 1, name |-> "ext_fn", span |-> 0, visibility |-> "Public",
     inner |-> [k |-> "Function",
        decl |-> FnDecl(<<Arg("g", ResolvedPath(Gadget))>>, NoType), generics |-> NoGenerics]],
    \* struct S<T: Gadget> { pub a: Widget, b: Gadget, pub c: <local> } with three impls
    Mk(StructS, "S", "Public", [k |-> "Struct", generics |-> StructGenerics,
        fields |-> << <<0, 20>>, <<0, 21>>, <<0, 22>> >>,
        impls |-> <<BlanketImpl, InherentImpl, TraitImpl>>]),
    Mk(<<0, 20>>, "a", "Public", [k |-> "StructField", type_ |-> ResolvedPath(Widget)]),
    Mk(<<0, 21>>, "b", "Default", [k |-> "StructField", type_ |-> ResolvedPath(Gadget)]),
    Mk(<<0, 22>>, "c", "Public", [k |-> "StructField", type_ |-> ResolvedPath(LocalNoSummary)]),
    Mk(BlanketImpl, "", "Default", [k |-> "Impl", blanket_impl |-> TRUE,
        generics |-> BlanketGenerics, items |-> << <<0, 26>> >>,
        trait_ |-> ResolvedPath(Unresolved)]),
    Mk(<<0, 26>>, "bm", "Public", [k |-> "Method",
        decl |-> FnDecl(<<Arg("x", ResolvedPath(Widget))>>, NoType), generics |-> NoGenerics]),
    Mk(InherentImpl, "", "Default", [k |-> "Impl", blanket_impl |-> FALSE,
        generics |-> NoGenerics, items |-> << <<0, 27>>, <<0, 28>> >>, trait_ |-> NoType]),
    Mk(<<0, 27>>, "get", "Public", [k |-> "Method",
        decl |-> FnDecl(<<Arg("self", ResolvedPath(Widget)), Arg("y", ResolvedPath(Gadget))>>,
                        ResolvedPath(Widget)),
        generics |-> NoGenerics]),
    Mk(<<0, 28>>, "priv_m", "Default", [k |-> "Method",
        decl |-> FnDecl(<<Arg("z", ResolvedPath(Widget))>>, NoType), generics |-> NoGenerics]),
    Mk(TraitImpl, "", "Default", [k |-> "Impl", blanket_impl |-> FALSE,
        generics |-> ImplGenerics, items |-> << <<0, 29>> >>, trait_ |-> ResolvedPath(Gadget)]),
    Mk(<<0, 29>>, "from", "Default", [k |-> "Method",
        decl |-> FnDecl(<<Arg("v", ResolvedPath(Gadget))>>, ResolvedPath(Widget)),
        generics |-> NoGenerics]),
    \* enum E { pub Plain, Tup(Widget), pub(crate) Crt(Gadget), Rec { x: Gadget, pub(crate) y: Widget } }
    Mk(EnumE, "E", "Public", [k |-> "Enum", generics |-> NoGenerics,
        impls |-> <<BlanketImpl, TraitImpl>>,
        variants |-> << <<0, 30>>, <<0, 31>>, <<0, 32>>, <<0, 33>> >>]),
    Mk(<<0, 30>>, "Plain", "Public", [k |-> "Variant", variant |-> [k |-> "Plain"]]),
    Mk(<<0, 31>>, "Tup", "Default", [k |-> "Variant",
        variant |-> [k |-> "Tuple", types |-> <<ResolvedPath(Widget)>>]]),
    Mk(<<0, 32>>, "Crt", "Crate", [k |-> "Variant",
        variant |-> [k |-> "Tuple", types |-> <<ResolvedPath(Gadget)>>]]),
    Mk(<<0, 33>>, "Rec", "Default", [k |-> "Variant",
        variant |-> [k |-> "Struct", ids |-> << <<0, 34>>, <<0, 35>> >>]]),
    Mk(<<0, 34>>, "x", "Default", [k |-> "StructField", type_ |-> ResolvedPath(Gadget)]),
    Mk(<<0, 35>>, "y", "Crate", [k |-> "StructField", type_ |-> ResolvedPath(Widget)]),
    \* trait T: Gadget { type Out = Widget; const K: Gadget; fn run(self, a: Widget); <crate> HID }
    Mk(TraitT, "T", "Public", [k |-> "Trait", generics |-> NoGenerics,
        bounds |-> <<TraitBound(ResolvedPath(Gadget), <<>>), Outlives>>,
        items |-> << <<0, 40>>, <<0, 41>>, <<0, 42>>, <<0, 43>> >>]),
    Mk(<<0, 40>>, "Out", "Default", [k |-> "AssocType", bounds |-> <<>>,
        default |-> ResolvedPath(Widget), generics |-> NoGenerics]),
    Mk(<<0, 41>>, "K", "Default", [k |-> "AssocConst", type_ |-> ResolvedPath(Gadget)]),
    Mk(<<0, 42>>, "run", "Default", [k |-> "Method",
        decl |-> FnDecl(<<Arg("self", GenericType), Arg("a", ResolvedPath(Widget))>>, NoType),
        generics |-> NoGenerics]),
    Mk(<<0, 43>>, "HID", "Crate", [k |-> "Constant", type_ |-> ResolvedPath(Widget)]),
    \* mod inner { struct Inner { pub field: Gadget }  pub fn hidden_f(x: Widget) }
    Mk(ModInner, "inner", "Default", [k |-> "Module", is_crate |-> FALSE,
        items |-> <<Inner, <<0, 51>> >>]),
    Mk(Inner, "Inner", "Default", [k |-> "Struct", generics |-> NoGenerics,
        fields |-> << <<0, 52>> >>, impls |-> <<>>]),
    Mk(<<0, 52>>, "field", "Public", [k |-> "StructField", type_ |-> ResolvedPath(Gadget)]),
    Mk(<<0, 51>>, "hidden_f", "Public", [k |-> "Function",
        decl |-> FnDecl(<<Arg("x", ResolvedPath(Widget))>>, NoType), generics |-> NoGenerics]),
    \* pub use inner::Inner as Renamed;
    [Mk(ReExportInner, "", "Public", [k |-> "Import", name |-> "Renamed", id |-> Inner])
        EXCEPT !.span = 1],
    \* pub mod m { pub use ext::Widget; <item of another crate>; mod inner; union U; type Alias;
    \*             static; const; macro; use <glob>; enum E; trait T }
    Mk(ModM, "m", "Public", [k |-> "Module", is_crate |-> FALSE,
        items |-> << <<0, 70>>, <<0, 71>>, ModInner, <<0, 72>>, <<0, 73>>, <<0, 74>>, <<0, 75>>,
                     <<0, 76>>, <<0, 77>>, EnumE, TraitT >>]),
    [Mk(<<0, 70>>, "", "Public", [k |-> "Import", name |-> "Widget", id |-> Widget])
        EXCEPT !.span = 2],
    [Mk(<<0, 71>>, "copied", "Public", [k |-> "Function",
        decl |-> FnDecl(<<Arg("x", ResolvedPath(Gadget))>>, NoType), generics |-> NoGenerics])
        EXCEPT !.crate_id = 1],
    Mk(<<0, 72>>, "U", "Public", [k |-> "Union", generics |-> NoGenerics,
        fields |-> << <<0, 20>>, <<0, 21>> >>, impls |-> <<BlanketImpl, InherentImpl>>]),
    Mk(<<0, 73>>, "Alias", "Public", [k |-> "Typedef", type_ |-> ComplexType,
        generics |-> ComplexGenerics]),
    Mk(<<0, 74>>, "ST", "Public", [k |-> "Static", type_ |-> ResolvedPath(Widget)]),
    Mk(<<0, 75>>, "CT", "Public", [k |-> "Constant", type_ |-> ResolvedPath(Gadget)]),
    Mk(<<0, 76>>, "mac", "Public", [k |-> "Macro"]),
    Mk(<<0, 77>>, "", "Public", [k |-> "Import", name |-> "glob", id |-> NoId]),
    \* pub use ext::Widget; in the crate root
    [Mk(ImportW, "", "Public", [k |-> "Import", name |-> "Widget", id |-> Widget])
        EXCEPT !.span = 3],
    \* pub static BAD: <a type of another crate that has no summary>
    Mk(BadStatic, "BAD", "Public", [k |-> "Static", type_ |-> ResolvedPath(Unresolved)]),
    \* pub mod unstable { type Op = impl Tr; pub extern type Ft; }
    Mk(ModUnstable, "unstable", "Public", [k |-> "Module", is_crate |-> FALSE,
        items |-> << <<0, 100>>, <<0, 101>> >>]),
    Mk(<<0, 100>>, "Op", "Default", [k |-> "OpaqueTy"]),
    Mk(<<0, 101>>, "Ft", "Public", [k |-> "ForeignType"]),
    \* pub use <private trait alias> as TA;
    Mk(ReExportAlias, "", "Public", [k |-> "Import", name |-> "TA", id |-> <<0, 110>>]),
    Mk(<<0, 110>>, "Ta", "Default", [k |-> "TraitAlias"]),
    \* pub mod cyc { pub use super::cyc as again; }
    Mk(ModCyc, "cyc", "Public", [k |-> "Module", is_crate |-> FALSE, items |-> << <<0, 120>> >>]),
    Mk(<<0, 120>>, "", "Public", [k |-> "Import", name |-> "again", id |-> ModCyc]),
    \* pub type Inf = _;
    Mk(TypedefInfer, "Inf", "Public", [k |-> "Typedef", type_ |-> [k |-> "Infer"],
        generics |-> NoGenerics])
}

StaticIds == {it.id : it \in StaticItems}
StaticIndex == [i \in StaticIds |-> CHOOSE it \in StaticItems : it.id = i]

\* the ids a crate root module may list: every kind of top-level item, and an
\* id the index does not hold
Pool == {FnF, StructS, ReExportInner, ModM, ImportW,
         BadStatic, ModUnstable, ReExportAlias, ModCyc, TypedefInfer, Missing}

RECURSIVE SeqsUpTo(_, _)
SeqsUpTo(S, n) ==
    IF n = 0 THEN {<<>>}
    ELSE LET shorter == SeqsUpTo(S, n - 1)
         IN  shorter \cup {Append(s, x) : s \in {t \in shorter : Len(t) = n - 1}, x \in S}

\* Crate.paths: the summaries, identity -> path segments
paths == (Widget :> <<"ext", "Widget">>) @@ (Gadget :> <<"ext", "Gadget">>)
         @@ (Inner :> <<"mylib", "inner", "Inner">>)

RECURSIVE JoinColons(_)
JoinColons(segs) ==
    IF Len(segs) = 0 THEN ""
    ELSE IF Len(segs) = 1 THEN segs[1]
    ELSE segs[1] \o "::" \o JoinColons(Tail(segs))

Names == {JoinColons(paths[i]) : i \in DOMAIN paths}

VARIABLES
    rootItems,   \* Module.items of the module the package names as its root
    isCrate,     \* Module.is_crate of the two modules RootId and ExtRootId
    allowed,     \* Visitor.config: the names the policy allows
    errors,      \* Visitor.errors
    stack,       \* the pending calls of the traversal, innermost first
    result,      \* what visit_all returned: none yet, Ok(set), Err or a panic
    walked,      \* history: the (path, id) of every item visit_item descended into
    first        \* the result of the previous run of visit_all on this input

vars == <<rootItems, isCrate, allowed, errors, stack, result, walked, first>>

(***************************************************************************)
(* The index (Crate.index) and what Visitor::new derives from the package. *)
(***************************************************************************)
RootModule ==
    Mk(RootId, "mylib", "Public",
       [k |-> "Module", is_crate |-> isCrate[1], items |-> rootItems])

\* the root module of another crate, copied into the index
ExtRootModule ==
    [id |-> ExtRootId, crate_id |-> 1, name |-> "ext", span |-> 0, visibility |-> "Public",
     inner |-> [k |-> "Module", is_crate |-> isCrate[2], items |-> <<ExtFn>>]]

IndexIds == StaticIds \cup {RootId, ExtRootId}

index ==
    [i \in IndexIds |->
        IF i = RootId THEN RootModule
        ELSE IF i = ExtRootId THEN ExtRootModule
        ELSE StaticIndex[i]]

\* Visitor::root_crate_id / root_crate_name: read off the item Crate.root names
root_crate_id == index[RootId].crate_id
root_crate_name == index[RootId].name

\* id.0.starts_with(&format!("{}:", crate)): the id's crate part is `crate`
StartsWithCrate(id, crate) == Len(id) > 0 /\ id[1] = crate

in_root_crate(id) == StartsWithCrate(id, root_crate_id)

\* Visitor::item is Ok exactly for the ids of the index
ItemFound(id) == id \in DOMAIN index

\* Visitor::item_summary
item_summary_found(id) == id \in DOMAIN paths

\* Visitor::type_name: the summary's path joined with "::"
type_name(id) == JoinColons(paths[id])

\* Config::allows_type: the policy, a predicate on (root crate name, type name)
allows_type(root_name, name) == name \in allowed

(***************************************************************************)
(* Path (crate::path): the components from the crate root to the item.     *)
(***************************************************************************)
PathNew(crate_name) == <<[typ |-> "Crate", name |-> crate_name, span |-> 0]>>

push_raw(path, typ, name, span) == Append(path, [typ |-> typ, name |-> name, span |-> span])

push(path, typ, item) == push_raw(path, typ, item.name, item.span)

last_type(path) == IF Len(path) = 0 THEN "None" ELSE path[Len(path)].typ

\* the span of the innermost component that has one (0: none)
last_span(path) ==
    LET withSpan == {i \in 1..Len(path) : path[i].span # 0}
    IN  IF withSpan = {} THEN 0
        ELSE path[CHOOSE i \in withSpan : \A j \in withSpan : j <= i].span

to_string(path) == JoinColons([i \in 1..Len(path) |-> path[i].name])

(***************************************************************************)
(* ErrorLocation and ValidationError (crate::error).                       *)
(***************************************************************************)
Loc(tag) == [tag |-> tag, name |-> ""]
ArgumentNamed(name) == [tag |-> "ArgumentNamed", name |-> name]
NoLoc == Loc("")

unapproved_external_type_ref(name, what, in_what_type, location) ==
    [type_name |-> name, what |-> what, in_what_type |-> in_what_type, location |-> location]

(***************************************************************************)
(* Pending calls and the outcome of running one function body.             *)
(***************************************************************************)
Call(op, path, what, arg) == [op |-> op, path |-> path, what |-> what, arg |-> arg]

\* a call of visit_item on the item `id` names, looked up with Visitor::item
CallItem(path, id, check) ==
    Call("visit_item", path, NoLoc, [id |-> id, check |-> check, same_crate_only |-> FALSE])

\* the call the loop of the Module arm makes: only for an item of the root crate
CallModuleItem(path, id) ==
    Call("visit_item", path, NoLoc, [id |-> id, check |-> "Default", same_crate_only |-> TRUE])

\* the body ran: these are the calls it makes, in order
Calls(cs) == [fault |-> "none", calls |-> cs, found |-> <<>>]
\* the body ran, made no call and handed `error` to add_error
Report(error) == [fault |-> "none", calls |-> <<>>, found |-> <<error>>]
\* the body hit panic!/unreachable!/unimplemented!
Panic == [fault |-> "panic", calls |-> <<>>, found |-> <<>>]
\* the body returned Err (a `?` on Visitor::item)
Failed == [fault |-> "Err", calls |-> <<>>, found |-> <<>>]

\* unstable_rust_feature! that reports the feature and lets the walk go on
unstable_rust_feature_Warns == Calls(<<>>)

\* the macro unstable_rust_feature!: a panic! that names the feature
unstable_rust_feature == Panic

RECURSIVE Flatten(_)
Flatten(ss) == IF Len(ss) = 0 THEN <<>> ELSE Head(ss) \o Flatten(Tail(ss))

(***************************************************************************)
(* The bodies of the visitor's functions: what each one calls, in order.   *)
(***************************************************************************)
\* is_public without the match on the surrounding context
is_public_OwnMarkerOnly(path, item) == item.visibility = "Public"

\* is_public that takes every item for public
is_public_Always(path, item) == TRUE

is_public(path, item) ==
    CASE item.visibility = "Public" -> TRUE
      [] item.visibility = "Default" ->
            \/ item.inner.k = "Variant" /\ last_type(path) = "Enum"
            \/ item.inner.k = "StructField" /\ last_type(path) = "EnumVariant"
            \/ last_type(path) = "Trait"
      [] OTHER -> FALSE

\* the match of visit_item, reached once the visibility check has passed
visit_item(path0, item) ==
    LET inner == item.inner
        k == inner.k
    IN  CASE k = "AssocConst" ->
                Calls(<<Call("visit_type", push(path0, "AssocConst", item), Loc("StructField"), inner.type_)>>)
          [] k = "AssocType" ->
                LET path == push(path0, "AssocType", item)
                IN  Calls((IF inner.default # NoType
                           THEN <<Call("visit_type", path, Loc("AssocType"), inner.default)>>
                           ELSE <<>>)
                          \o <<Call("visit_generic_bounds", path, NoLoc, inner.bounds),
                               Call("visit_generics", path, NoLoc, inner.generics)>>)
          [] k = "Constant" ->
                Calls(<<Call("visit_type", push(path0, "Constant", item), Loc("Constant"), inner.type_)>>)
          [] k = "Enum" ->
                LET path == push(path0, "Enum", item)
                IN  Calls(<<Call("visit_generics", path, NoLoc, inner.generics)>>
                          \o [n \in 1..Len(inner.impls) |-> LET id == inner.impls[n] IN Call("visit_impl", path, NoLoc, id)]
                          \o [n \in 1..Len(inner.variants) |-> LET id == inner.variants[n] IN CallItem(path, id, "Default")])
          [] k = "ForeignType" -> unstable_rust_feature
          [] k = "Function" ->
                LET path == push(path0, "Function", item)
                IN  Calls(<<Call("visit_fn_decl", path, NoLoc, inner.decl),
                            Call("visit_generics", path, NoLoc, inner.generics)>>)
          [] k = "Import" ->
                IF inner.id = NoId THEN Calls(<<>>)
                ELSE Calls((IF in_root_crate(inner.id)
                            THEN <<CallItem(path0, inner.id, "AssumePublic")>>
                            ELSE <<>>)
                           \o <<Call("check_external",
                                     push_raw(path0, "ReExport", inner.name, item.span),
                                     Loc("ReExport"), inner.id)>>)
          [] k = "Method" ->
                LET path == push(path0, "Method", item)
                IN  Calls(<<Call("visit_fn_decl", path, NoLoc, inner.decl),
                            Call("visit_generics", path, NoLoc, inner.generics)>>)
          [] k = "Module" ->
                LET path == IF inner.is_crate THEN path0 ELSE push(path0, "Module", item)
                IN  Calls([n \in 1..Len(inner.items) |-> LET id == inner.items[n] IN CallModuleItem(path, id)])
          [] k = "OpaqueTy" -> unstable_rust_feature
          [] k = "Static" ->
                Calls(<<Call("visit_type", push(path0, "Static", item), Loc("Static"), inner.type_)>>)
          [] k = "Struct" ->
                Calls(<<Call("visit_struct", push(path0, "Struct", item), NoLoc, inner)>>)
          [] k = "StructField" ->
                Calls(<<Call("visit_type", push(path0, "StructField", item), Loc("StructField"), inner.type_)>>)
          [] k = "Trait" ->
                Calls(<<Call("visit_trait", push(path0, "Trait", item), NoLoc, inner)>>)
          [] k = "Typedef" ->
                LET path == push(path0, "TypeDef", item)
                IN  Calls(<<Call("visit_type", path, Loc("TypeDef"), inner.type_),
                            Call("visit_generics", path, NoLoc, inner.generics)>>)
          [] k = "TraitAlias" -> unstable_rust_feature
          [] k = "Union" ->
                Calls(<<Call("visit_union", push(path0, "Union", item), NoLoc, inner)>>)
          [] k = "Variant" ->
                Calls(<<Call("visit_variant", push(path0, "EnumVariant", item), NoLoc, inner.variant)>>)
          [] OTHER -> Calls(<<>>)

visit_struct(path, strct) ==
    Calls(<<Call("visit_generics", path, NoLoc, strct.generics)>>
          \o [n \in 1..Len(strct.fields) |-> LET id == strct.fields[n] IN CallItem(path, id, "Default")]
          \o [n \in 1..Len(strct.impls) |-> LET id == strct.impls[n] IN Call("visit_impl", path, NoLoc, id)])

visit_union(path, unn) ==
    Calls(<<Call("visit_generics", path, NoLoc, unn.generics)>>
          \o [n \in 1..Len(unn.fields) |-> LET id == unn.fields[n] IN CallItem(path, id, "Default")]
          \o [n \in 1..Len(unn.impls) |-> LET id == unn.impls[n] IN Call("visit_impl", path, NoLoc, id)])

visit_trait(path, trt) ==
    Calls(<<Call("visit_generics", path, NoLoc, trt.generics),
            Call("visit_generic_bounds", path, NoLoc, trt.bounds)>>
          \o [n \in 1..Len(trt.items) |-> LET id == trt.items[n] IN CallItem(path, id, "Default")])

\* visit_impl without the test for blanket implementations
visit_impl_NoBlanketTest(path, item) ==
    IF item.inner.k = "Impl"
    THEN LET imp == item.inner
         IN  Calls(<<Call("visit_generics", path, NoLoc, imp.generics)>>
                   \o [n \in 1..Len(imp.items) |-> LET id == imp.items[n] IN CallItem(path, id, "Default")]
                   \o (IF imp.trait_ # NoType
                       THEN <<Call("visit_type", path, Loc("ImplementedTrait"), imp.trait_)>>
                       ELSE <<>>))
    ELSE Panic

\* visit_impl that takes the members of the block for public
visit_impl_AssumePublic(path, item) ==
    IF item.inner.k = "Impl"
    THEN LET imp == item.inner
         IN  IF imp.blanket_impl THEN Calls(<<>>)
             ELSE Calls(<<Call("visit_generics", path, NoLoc, imp.generics)>>
                        \o [n \in 1..Len(imp.items) |-> LET id == imp.items[n] IN CallItem(path, id, "AssumePublic")]
                        \o (IF imp.trait_ # NoType
                            THEN <<Call("visit_type", path, Loc("ImplementedTrait"), imp.trait_)>>
                            ELSE <<>>))
    ELSE Panic

visit_impl(path, item) ==
    IF item.inner.k = "Impl"
    THEN LET imp == item.inner
         IN  IF imp.blanket_impl THEN Calls(<<>>)
             ELSE Calls(<<Call("visit_generics", path, NoLoc, imp.generics)>>
                        \o [n \in 1..Len(imp.items) |-> LET id == imp.items[n] IN CallItem(path, id, "Default")]
                        \o (IF imp.trait_ # NoType
                            THEN <<Call("visit_type", path, Loc("ImplementedTrait"), imp.trait_)>>
                            ELSE <<>>))
    ELSE Panic

\* visit_fn_decl that skips the first input whatever its name
visit_fn_decl_SkipsFirst(path, decl) ==
    Calls(Flatten([i \in 1..Len(decl.inputs) |->
                    IF i = 1 THEN <<>>
                    ELSE <<Call("visit_type", path, ArgumentNamed(decl.inputs[i].name),
                                decl.inputs[i].type_)>>])
          \o (IF decl.output # NoType
              THEN <<Call("visit_type", path, Loc("ReturnValue"), decl.output)>>
              ELSE <<>>))

visit_fn_decl(path, decl) ==
    Calls(Flatten([i \in 1..Len(decl.inputs) |->
                    IF i = 1 /\ decl.inputs[i].name = "self" THEN <<>>
                    ELSE <<Call("visit_type", path, ArgumentNamed(decl.inputs[i].name),
                                decl.inputs[i].type_)>>])
          \o (IF decl.output # NoType
              THEN <<Call("visit_type", path, Loc("ReturnValue"), decl.output)>>
              ELSE <<>>))

\* one bound of an impl-trait list or of a bound list, tagged `what`
BoundCalls(path, what, bound) ==
    IF bound.k = "TraitBound"
    THEN <<Call("visit_type", path, what, bound.trait_),
           Call("visit_generic_param_defs", path, NoLoc, bound.generic_params)>>
    ELSE <<>>

visit_type(path, what, typ) ==
    CASE typ.k = "ResolvedPath" ->
            Calls(<<Call("check_external", path, what, typ.id)>>
                  \o (IF typ.args # NoArgs
                      THEN <<Call("visit_generic_args", path, NoLoc, typ.args)>>
                      ELSE <<>>)
                  \o <<Call("visit_generic_bounds", path, NoLoc, typ.param_names)>>)
      [] typ.k \in {"Generic", "Primitive"} -> Calls(<<>>)
      [] typ.k = "FunctionPointer" ->
            Calls(<<Call("visit_fn_decl", path, NoLoc, typ.decl),
                    Call("visit_generic_param_defs", path, NoLoc, typ.generic_params)>>)
      [] typ.k = "Tuple" ->
            Calls([n \in 1..Len(typ.types) |-> LET t == typ.types[n] IN Call("visit_type", path, Loc("EnumTupleEntry"), t)])
      [] typ.k \in {"Slice", "Array", "RawPointer", "BorrowedRef"} ->
            Calls(<<Call("visit_type", path, what, typ.type_)>>)
      [] typ.k = "ImplTrait" ->
            Calls(Flatten([n \in 1..Len(typ.bounds) |-> LET b == typ.bounds[n] IN BoundCalls(path, what, b)]))
      [] typ.k = "Infer" -> Panic
      [] typ.k = "QualifiedPath" ->
            Calls(<<Call("visit_type", path, Loc("QualifiedSelfType"), typ.self_type),
                    Call("visit_type", path, Loc("QualifiedSelfTypeAsTrait"), typ.trait_)>>)

\* one type binding of angle-bracketed generic arguments
BindingCalls(path, binding) ==
    IF binding.k = "Equality"
    THEN IF binding.term.k = "Type"
         THEN <<Call("visit_type", path, Loc("GenericDefaultBinding"), binding.term.type_)>>
         ELSE <<>>
    ELSE <<Call("visit_generic_bounds", path, NoLoc, binding.bounds)>>

visit_generic_args(path, args) ==
    IF args.k = "AngleBracketed"
    THEN Calls(Flatten([n \in 1..Len(args.args) |-> LET a == args.args[n] IN IF a.k = "Type"
                    THEN <<Call("visit_type", path, Loc("GenericArg"), a.type_)>>
                    ELSE <<>>])
               \o Flatten([n \in 1..Len(args.bindings) |-> LET b == args.bindings[n] IN BindingCalls(path, b)]))
    ELSE Calls([n \in 1..Len(args.inputs) |-> LET t == args.inputs[n] IN Call("visit_type", path, Loc("ClosureInput"), t)]
               \o (IF args.output # NoType
                   THEN <<Call("visit_type", path, Loc("ClosureOutput"), args.output)>>
                   ELSE <<>>))

visit_generic_bounds(path, bounds) ==
    Calls(Flatten([n \in 1..Len(bounds) |-> LET b == bounds[n] IN BoundCalls(path, Loc("TraitBound"), b)]))

\* one generic parameter definition
ParamCalls(path, param) ==
    CASE param.kind = "Type" ->
            <<Call("visit_generic_bounds", path, NoLoc, param.bounds)>>
            \o (IF param.default # NoType
                THEN <<Call("visit_type", path, Loc("GenericDefaultBinding"), param.default)>>
                ELSE <<>>)
      [] param.kind = "Const" ->
            <<Call("visit_type", path, Loc("ConstGeneric"), param.type_)>>
      [] OTHER -> <<>>

visit_generic_param_defs(path, params) ==
    Calls(Flatten([n \in 1..Len(params) |-> LET p == params[n] IN ParamCalls(path, p)]))

\* one where-predicate
WhereCalls(path, pred) ==
    CASE pred.k = "BoundPredicate" ->
            <<Call("visit_type", path, Loc("WhereBound"), pred.type_),
              Call("visit_generic_bounds", path, NoLoc, pred.bounds),
              Call("visit_generic_param_defs", path, NoLoc, pred.generic_params)>>
      [] pred.k = "RegionPredicate" ->
            <<Call("visit_generic_bounds", path, NoLoc, pred.bounds)>>
      [] pred.k = "EqPredicate" ->
            <<Call("visit_type", path, Loc("WhereBound"), pred.lhs)>>

visit_generics(path, generics) ==
    Calls(<<Call("visit_generic_param_defs", path, NoLoc, generics.params)>>
          \o Flatten([n \in 1..Len(generics.where_predicates) |-> LET w == generics.where_predicates[n] IN WhereCalls(path, w)]))

visit_variant(path, variant) ==
    CASE variant.k = "Plain" -> Calls(<<>>)
      [] variant.k = "Tuple" ->
            Calls([n \in 1..Len(variant.types) |-> LET t == variant.types[n] IN Call("visit_type", path, Loc("EnumTupleEntry"), t)])
      [] variant.k = "Struct" ->
            Calls([n \in 1..Len(variant.ids) |-> LET id == variant.ids[n] IN CallItem(path, id, "Default")])

\* check_external that tests the crate of the identity before its summary
check_external_CrateFirst(path, what, id) ==
    IF StartsWithCrate(id, root_crate_id) THEN Calls(<<>>)
    ELSE IF item_summary_found(id)
    THEN IF ~allows_type(root_crate_name, type_name(id))
         THEN Report(unapproved_external_type_ref(type_name(id), what, to_string(path), last_span(path)))
         ELSE Calls(<<>>)
    ELSE Panic

\* check_external that returns the violation as an Err instead of recording it
check_external_FailFast(path, what, id) ==
    IF item_summary_found(id)
    THEN IF ~allows_type(root_crate_name, type_name(id)) THEN Failed ELSE Calls(<<>>)
    ELSE IF ~StartsWithCrate(id, root_crate_id) THEN Panic
    ELSE Calls(<<>>)

check_external(path, what, id) ==
    IF item_summary_found(id)
    THEN IF ~allows_type(root_crate_name, type_name(id))
         THEN Report(unapproved_external_type_ref(type_name(id), what, to_string(path), last_span(path)))
         ELSE Calls(<<>>)
    ELSE IF ~StartsWithCrate(id, root_crate_id) THEN Panic
    ELSE Calls(<<>>)

\* add_error on a set ordered and compared by the type name alone
add_error_ByName(errs, error) ==
    IF \E e \in errs : e.type_name = error.type_name THEN errs ELSE errs \cup {error}

\* BTreeSet::insert
add_error(errs, error) == errs \cup {error}

(***************************************************************************)
(* The state machine.                                                      *)
(***************************************************************************)
Idle == [kind |-> "idle", errors |-> {}]
NoResult == [kind |-> "none", errors |-> {}]

Init ==
    /\ rootItems \in SeqsUpTo(Pool, MaxMembers)
    /\ isCrate \in {<<a, b>> : a \in BOOLEAN, b \in BOOLEAN}
    /\ allowed \in SUBSET Names
    /\ errors = {}
    /\ stack = <<>>
    /\ result = Idle
    /\ walked = {}
    /\ first = NoResult

Running == result.kind = "running" /\ stack # <<>>

\* the modules of the index tagged as a crate root
CrateRoots == {id \in IndexIds : index[id].inner.k = "Module" /\ index[id].inner.is_crate}

\* a body's outcome: its calls run before the caller's remaining ones; a fault
\* unwinds every pending call and ends visit_all
Proceed(out) ==
    IF out.fault = "none"
    THEN /\ stack' = out.calls \o Tail(stack)
         /\ UNCHANGED result
    ELSE /\ stack' = <<>>
         /\ result' = [kind |-> out.fault, errors |-> {}]

\* visit_all up to its loop: HashMap::values().find() yields whichever crate
\* root module the map's iteration order puts first
VisitAll ==
    /\ result.kind = "idle"
    /\ IF CrateRoots = {}
       THEN /\ result' = [kind |-> "Err", errors |-> {}]
            /\ stack' = <<>>
       ELSE \E r \in CrateRoots :
            /\ stack' = [n \in 1..Len(index[r].inner.items) |-> LET id == index[r].inner.items[n] IN CallItem(PathNew(root_crate_name), id, "Default")]
            /\ result' = [kind |-> "running", errors |-> {}]
    /\ UNCHANGED <<rootItems, isCrate, allowed, errors, walked, first>>

\* the end of visit_all: Ok(self.errors.take())
Finish ==
    /\ result.kind = "running"
    /\ stack = <<>>
    /\ result' = [kind |-> "Ok", errors |-> errors]
    /\ errors' = {}
    /\ UNCHANGED <<rootItems, isCrate, allowed, stack, walked, first>>

VisitItem ==
    /\ Running
    /\ Head(stack).op = "visit_item"
    /\ Len(Head(stack).path) <= MaxDepth
    /\ LET t == Head(stack)
           a == t.arg
       IN  IF ~ItemFound(a.id)
           THEN Proceed(Failed) /\ UNCHANGED walked
           ELSE IF a.same_crate_only /\ index[a.id].crate_id # root_crate_id
           THEN Proceed(Calls(<<>>)) /\ UNCHANGED walked
           ELSE IF a.check = "Default" /\ ~is_public(t.path, index[a.id])
           THEN Proceed(Calls(<<>>)) /\ UNCHANGED walked
           ELSE /\ Proceed(visit_item(t.path, index[a.id]))
                /\ walked' = walked \cup {[path |-> to_string(t.path), id |-> a.id]}
    /\ UNCHANGED <<rootItems, isCrate, allowed, errors, first>>

\* visit_item entered deeper than the thread's stack has room for: the runtime
\* aborts the process, visit_all neither returns nor unwinds
StackOverflow ==
    /\ Running
    /\ Head(stack).op = "visit_item"
    /\ Len(Head(stack).path) > MaxDepth
    /\ result' = [kind |-> "abort", errors |-> {}]
    /\ stack' = <<>>
    /\ UNCHANGED <<rootItems, isCrate, allowed, errors, walked, first>>

VisitImpl ==
    /\ Running
    /\ Head(stack).op = "visit_impl"
    /\ LET t == Head(stack)
       IN  IF ~ItemFound(t.arg) THEN Proceed(Failed)
           ELSE Proceed(visit_impl(t.path, index[t.arg]))
    /\ UNCHANGED <<rootItems, isCrate, allowed, errors, walked, first>>

CheckExternal ==
    /\ Running
    /\ Head(stack).op = "check_external"
    /\ LET t == Head(stack)
           out == check_external(t.path, t.what, t.arg)
       IN  /\ Proceed(out)
           /\ errors' = IF Len(out.found) = 0 THEN errors ELSE add_error(errors, out.found[1])
    /\ UNCHANGED <<rootItems, isCrate, allowed, walked, first>>

VisitStruct ==
    /\ Running
    /\ Head(stack).op = "visit_struct"
    /\ Proceed(visit_struct(Head(stack).path, Head(stack).arg))
    /\ UNCHANGED <<rootItems, isCrate, allowed, errors, walked, first>>

VisitUnion ==
    /\ Running
    /\ Head(stack).op = "visit_union"
    /\ Proceed(visit_union(Head(stack).path, Head(stack).arg))
    /\ UNCHANGED <<rootItems, isCrate, allowed, errors, walked, first>>

VisitTrait ==
    /\ Running
    /\ Head(stack).op = "visit_trait"
    /\ Proceed(visit_trait(Head(stack).path, Head(stack).arg))
    /\ UNCHANGED <<rootItems, isCrate, allowed, errors, walked, first>>

VisitVariant ==
    /\ Running
    /\ Head(stack).op = "visit_variant"
    /\ Proceed(visit_variant(Head(stack).path, Head(stack).arg))
    /\ UNCHANGED <<rootItems, isCrate, allowed, errors, walked, first>>

VisitFnDecl ==
    /\ Running
    /\ Head(stack).op = "visit_fn_decl"
    /\ Proceed(visit_fn_decl(Head(stack).path, Head(stack).arg))
    /\ UNCHANGED <<rootItems, isCrate, allowed, errors, walked, first>>

VisitType ==
    /\ Running
    /\ Head(stack).op = "visit_type"
    /\ Proceed(visit_type(Head(stack).path, Head(stack).what, Head(stack).arg))
    /\ UNCHANGED <<rootItems, isCrate, allowed, errors, walked, first>>

VisitGenericArgs ==
    /\ Running
    /\ Head(stack).op = "visit_generic_args"
    /\ Proceed(visit_generic_args(Head(stack).path, Head(stack).arg))
    /\ UNCHANGED <<rootItems, isCrate, allowed, errors, walked, first>>

VisitGenericBounds ==
    /\ Running
    /\ Head(stack).op = "visit_generic_bounds"
    /\ Proceed(visit_generic_bounds(Head(stack).path, Head(stack).arg))
    /\ UNCHANGED <<rootItems, isCrate, allowed, errors, walked, first>>

VisitGenericParamDefs ==
    /\ Running
    /\ Head(stack).op = "visit_generic_param_defs"
    /\ Proceed(visit_generic_param_defs(Head(stack).path, Head(stack).arg))
    /\ UNCHANGED <<rootItems, isCrate, allowed, errors, walked, first>>

VisitGenerics ==
    /\ Running
    /\ Head(stack).op = "visit_generics"
    /\ Proceed(visit_generics(Head(stack).path, Head(stack).arg))
    /\ UNCHANGED <<rootItems, isCrate, allowed, errors, walked, first>>

\* a second Visitor is built from the same package and config and run
Rerun ==
    /\ result.kind \in {"Ok", "Err", "panic"}
    /\ first = NoResult
    /\ first' = result
    /\ result' = Idle
    /\ errors' = {}
    /\ stack' = <<>>
    /\ walked' = {}
    /\ UNCHANGED <<rootItems, isCrate, allowed>>

Next ==
    \/ VisitAll
    \/ VisitItem
    \/ StackOverflow
    \/ VisitImpl
    \/ VisitStruct
    \/ VisitUnion
    \/ VisitTrait
    \/ VisitVariant
    \/ VisitFnDecl
    \/ VisitType
    \/ VisitGenericArgs
    \/ VisitGenericBounds
    \/ VisitGenericParamDefs
    \/ VisitGenerics
    \/ CheckExternal
    \/ Finish

Spec == Init /\ [][Next]_vars

\* two runs of visit_all on one input
SpecTwice == Init /\ [][Next \/ Rerun]_vars

\* visit_all runs on one thread and never waits: a call that can take its next
\* step takes it
FairSpec == Spec /\ WF_vars(Next)

(***************************************************************************)
(* Properties.                                                             *)
(***************************************************************************)
\* exactly the module the package names as its root is tagged is_crate
SingleRoot == isCrate = <<TRUE, FALSE>>

\* the ids of the items visit_item has descended into
WalkedIds == {w.id : w \in walked}

\* the head of the stack is a call of visit_item the caller really makes: the
\* item is in the index and the module loop's crate test, if any, lets it through
VisitItemCalled ==
    /\ Running
    /\ Head(stack).op = "visit_item"
    /\ ItemFound(Head(stack).arg.id)
    /\ ~(Head(stack).arg.same_crate_only /\ index[Head(stack).arg.id].crate_id # root_crate_id)

\* the step the head call takes returns at once: nothing is pushed, recorded or raised
ReturnsAtOnce ==
    /\ stack' = Tail(stack)
    /\ errors' = errors
    /\ result' = result
    /\ walked' = walked

\* the step the head call takes descends into the item
Descends == walked' = walked \cup {[path |-> to_string(Head(stack).path), id |-> Head(stack).arg.id]}

\* the head call visits an item in one of the three inheriting positions of the
\* data model: a variant in an enum, a field in an enum variant, a member of a trait
InheritingPosition ==
    LET item == index[Head(stack).arg.id]
        container == Head(stack).path[Len(Head(stack).path)].typ
    IN  \/ item.inner.k = "Variant" /\ container = "Enum"
        \/ item.inner.k = "StructField" /\ container = "EnumVariant"
        \/ container = "Trait"

\* the items of the catalogue that are never re-exported and sit behind a
\* non-public item: the private module inner and its function, the private
\* field b, the private method priv_m and the private opaque type
HiddenIds == {ModInner, <<0, 51>>, <<0, 21>>, <<0, 28>>, <<0, 100>>}

\* C1: a call of visit_item with default visibility checking on an item that
\* is not effectively public (its marker is not public, and it is not a
\* default-marked item in an inheriting position) returns at once: no call is
\* pushed, no error is added, no fault is raised; and no item that sits behind
\* a non-public item is ever descended into or named by a recorded violation.
C1_PrivateSkipped ==
    /\ [][(/\ VisitItemCalled
           /\ Head(stack).arg.check = "Default"
           /\ index[Head(stack).arg.id].visibility # "Public"
           /\ ~(index[Head(stack).arg.id].visibility = "Default" /\ InheritingPosition))
          => ReturnsAtOnce]_vars
    /\ [](WalkedIds \cap HiddenIds = {})
    /\ [](\A e \in errors : e.in_what_type \notin
            {"mylib::m::inner::hidden_f", "mylib::m::inner::Inner::field", "mylib::S::b",
             "mylib::S::priv_m", "mylib::m::U::b"})

\* C1 witness: the walk of the public module m has passed its private member
\* inner (its third item) and stands at the union that follows it
C1_Witness ==
    /\ Running
    /\ Head(stack).op = "visit_item"
    /\ Head(stack).arg.id = <<0, 72>>
    /\ ModM \in WalkedIds
    /\ ModInner \notin WalkedIds

\* C2 as stated: in an inheriting position visit_item descends into the item
\* whatever its own marker is (public, default or any other)
C2_AnyMarkerInherits ==
    [][(VisitItemCalled /\ Head(stack).arg.check = "Default" /\ InheritingPosition)
       => Descends]_vars

\* C2 amended: in an inheriting position visit_item descends into the item when
\* its own marker is public or default, and returns at once when the marker is
\* any other one (crate, restricted)
C2_PublicOrDefaultInherits ==
    [][(VisitItemCalled /\ Head(stack).arg.check = "Default" /\ InheritingPosition)
       => IF index[Head(stack).arg.id].visibility \in {"Public", "Default"}
          THEN Descends
          ELSE ReturnsAtOnce]_vars

\* C2 witness: a default-marked variant, a default-marked field of a variant and
\* a default-marked trait member were descended into; the crate-marked variant,
\* field and trait member were passed over
C2_Witness ==
    /\ result.kind = "Ok"
    /\ {<<0, 31>>, <<0, 34>>, <<0, 40>>, <<0, 42>>} \subseteq WalkedIds
    /\ WalkedIds \cap {<<0, 32>>, <<0, 35>>, <<0, 43>>} = {}

\* C3: with the private struct Inner { pub field: ext::Gadget } re-exported
\* from the crate root as Renamed and ext::Gadget not allowed, the report holds
\* a violation for ext::Gadget whose path is the re-export path mylib::Renamed::field
C3_ReExportPath ==
    (/\ SingleRoot
     /\ \E i \in 1..Len(rootItems) : rootItems[i] = ReExportInner
     /\ "ext::Gadget" \notin allowed
     /\ result.kind = "Ok")
    => \E e \in result.errors :
          /\ e.type_name = "ext::Gadget"
          /\ e.what = Loc("StructField")
          /\ e.in_what_type = "mylib::Renamed::field"

\* C4: with ext::Widget re-exported from the crate root and from the public
\* module m and not allowed, the report holds two re-export violations for
\* ext::Widget, one per import, with the paths mylib::Widget and mylib::m::Widget
C4_TwoReExports ==
    (/\ SingleRoot
     /\ \E i \in 1..Len(rootItems) : rootItems[i] = ImportW
     /\ \E i \in 1..Len(rootItems) : rootItems[i] = ModM
     /\ "ext::Widget" \notin allowed
     /\ result.kind = "Ok")
    => /\ \E e \in result.errors :
            e.type_name = "ext::Widget" /\ e.what = Loc("ReExport") /\ e.in_what_type = "mylib::Widget"
       /\ \E e \in result.errors :
            e.type_name = "ext::Widget" /\ e.what = Loc("ReExport") /\ e.in_what_type = "mylib::m::Widget"
       /\ Cardinality({e \in result.errors : e.type_name = "ext::Widget" /\ e.what = Loc("ReExport")}) = 2

\* C4 witness: a finished run over both re-exports with ext::Widget not allowed
C4_Witness ==
    /\ SingleRoot
    /\ rootItems = <<ImportW, ModM>>
    /\ "ext::Widget" \notin allowed
    /\ result.kind = "Ok"
    /\ Cardinality({e \in result.errors : e.what = Loc("ReExport") /\ e.type_name = "ext::Widget"}) = 2

\* C5: visit_impl on a blanket implementation returns at once; its method bm is
\* never descended into, and a struct whose blanket implementation names
\* identities without a summary is walked without a fault
C5_BlanketSkipped ==
    /\ [][(/\ Running
           /\ Head(stack).op = "visit_impl"
           /\ ItemFound(Head(stack).arg)
           /\ index[Head(stack).arg].inner.k = "Impl"
           /\ index[Head(stack).arg].inner.blanket_impl)
          => ReturnsAtOnce]_vars
    /\ [](<<0, 26>> \notin WalkedIds)
    /\ []((rootItems = <<StructS>> /\ SingleRoot) => result.kind \notin {"Err", "panic"})

\* C5 witness: the walk of the public struct S has passed its blanket
\* implementation and stands at the implementation that follows it
C5_Witness ==
    /\ Running
    /\ Head(stack).op = "visit_impl"
    /\ Head(stack).arg = InherentImpl
    /\ StructS \in WalkedIds

\* C6: the crate root holds only the public function f(x: ext::Widget): the run
\* ends with a report, which is the single violation (ext::Widget, argument
\* named x, mylib::f) when the policy does not allow ext::Widget and is empty
\* when it does
C6_SingleFunction ==
    (rootItems = <<FnF>> /\ SingleRoot)
    => /\ result.kind \notin {"Err", "panic"}
       /\ result.kind = "Ok" =>
            result.errors =
                IF "ext::Widget" \in allowed THEN {}
                ELSE {[type_name |-> "ext::Widget", what |-> ArgumentNamed("x"),
                       in_what_type |-> "mylib::f", location |-> 0]}

\* C6 witness: the run over f alone ended with exactly one violation
C6_Witness ==
    /\ rootItems = <<FnF>>
    /\ SingleRoot
    /\ result.kind = "Ok"
    /\ Cardinality(result.errors) = 1

\* C7: unless exactly one module of the index is tagged as the crate root,
\* visit_all ends with a fault and visits nothing
C7_ExactlyOneRoot ==
    (Cardinality(CrateRoots) # 1)
    => /\ result.kind \in {"idle", "Err"}
       /\ stack = <<>>
       /\ walked = {}

\* C8: the second run of visit_all on the same input ends as the first did
C8_Deterministic ==
    (first # NoResult /\ result.kind \in {"Ok", "Err", "panic"}) => result = first

\* the error check_external records for the call at the head of the stack
C9_Expected ==
    [type_name |-> JoinColons(paths[Head(stack).arg]), what |-> Head(stack).what,
     in_what_type |-> JoinColons([i \in 1..Len(Head(stack).path) |-> Head(stack).path[i].name]),
     location |-> last_span(Head(stack).path)]

\* C9: check_external on an identity without a summary returns silently when
\* the identity is the root crate's and panics otherwise; on an identity with a
\* summary it records the violation exactly when the policy does not allow the
\* name, and returns
C9_CheckExternal ==
    [][(Running /\ Head(stack).op = "check_external")
       => IF Head(stack).arg \in DOMAIN paths
          THEN /\ result' = result
               /\ stack' = Tail(stack)
               /\ errors' = IF JoinColons(paths[Head(stack).arg]) \in allowed
                            THEN errors
                            ELSE errors \cup {C9_Expected}
          ELSE IF Head(stack).arg[1] = 0
          THEN /\ result' = result
               /\ stack' = Tail(stack)
               /\ errors' = errors
          ELSE result'.kind = "panic"]_vars

\* C9 witness: a finished run in which the field c, whose type is an identity of
\* the root crate without a summary, was walked and a violation was recorded
C9_Witness ==
    /\ result.kind = "Ok"
    /\ <<0, 22>> \in WalkedIds
    /\ result.errors # {}

\* C10: a call of check_external that records a violation returns like one that
\* records none (the run goes on with the pending calls), and a run over the
\* struct S followed by the function f, with neither external type allowed,
\* reports the violations of all seven sites
C10_CollectAll ==
    /\ [][(/\ Running
           /\ Head(stack).op = "check_external"
           /\ Head(stack).arg \in DOMAIN paths
           /\ JoinColons(paths[Head(stack).arg]) \notin allowed)
          => (result' = result /\ stack' = Tail(stack) /\ C9_Expected \in errors')]_vars
    /\ []((/\ rootItems = <<StructS, FnF>>
           /\ SingleRoot
           /\ allowed \cap {"ext::Widget", "ext::Gadget"} = {})
          => /\ result.kind \notin {"Err", "panic"}
             /\ result.kind = "Ok" =>
                  /\ Cardinality(result.errors) = 7
                  /\ \E e \in result.errors : e.in_what_type = "mylib::f")

\* C10 witness: a finished run that reported the violations of S and then the one of f
C10_Witness ==
    /\ rootItems = <<StructS, FnF>>
    /\ result.kind = "Ok"
    /\ Cardinality(result.errors) = 7

\* the kinds of item that belong to an unstable language feature
UnstableKinds == {"ForeignType", "OpaqueTy", "TraitAlias"}

\* the head of the stack is a call of visit_item on an item of such a kind
AtUnstable == VisitItemCalled /\ index[Head(stack).arg.id].inner.k \in UnstableKinds

\* the step the head call takes ends the run with a panic
Aborts == result'.kind = "panic" /\ stack' = <<>>

\* C11 as stated: a call of visit_item on a foreign type, an opaque type or a
\* trait alias ends the run with a panic, whatever the item's marker and the
\* visibility mode of the call
C11_AlwaysFatal == [][AtUnstable => Aborts]_vars

\* C11 amended: a call of visit_item on a foreign type, an opaque type or a
\* trait alias ends the run with a panic when the call assumes the item public
\* or the item is effectively public; under default visibility checking an item
\* that is not effectively public is skipped like any other private item,
\* without a fault.  A run that reaches a public foreign type, or a re-export
\* of a private trait alias, does not end with a report.
C11_FatalWhenVisible ==
    /\ [][AtUnstable
          => IF \/ Head(stack).arg.check = "AssumePublic"
                \/ index[Head(stack).arg.id].visibility = "Public"
                \/ index[Head(stack).arg.id].visibility = "Default" /\ InheritingPosition
             THEN Aborts
             ELSE ReturnsAtOnce]_vars
    /\ []((SingleRoot /\ Len(rootItems) > 0 /\ rootItems[1] \in {ModUnstable, ReExportAlias})
          => result.kind # "Ok")

\* C11 witness: the walk of the module unstable passed its private opaque type
\* without descending into it and ended with a panic at its public foreign type
C11_Witness ==
    /\ SingleRoot
    /\ rootItems = <<ModUnstable>>
    /\ result.kind = "panic"
    /\ <<0, 101>> \in WalkedIds
    /\ <<0, 100>> \notin WalkedIds

\* visit_all has returned or panicked
Ended == result.kind \in {"Ok", "Err", "panic"}

\* the import `pub use super::cyc as again` inside the module cyc
ImportAgain == <<0, 120>>

\* the head call would be entered deeper than the thread's stack has room for
BeyondMaxDepth ==
    /\ Running
    /\ Head(stack).op = "visit_item"
    /\ Len(Head(stack).path) > MaxDepth

\* C12: every run of visit_all ends, with a report (Ok) or with a fatal fault
\* (Err or a panic)
C12_Terminates == <>Ended

\* the recursion of the cyclic re-export: visit_item on the module cyc calls
\* visit_item on its import with a path one component longer, and visit_item on
\* the import calls visit_item on the module cyc again, with that path and one
\* more pending call; nothing in either step depends on the length of the path
C12_CycleRecurs ==
    /\ [][(/\ Running
           /\ Head(stack).op = "visit_item"
           /\ Head(stack).arg.id = ModCyc
           /\ Len(Head(stack).path) <= MaxDepth)
          => /\ Len(stack') = Len(stack)
             /\ Head(stack').op = "visit_item"
             /\ Head(stack').arg.id = ImportAgain
             /\ Len(Head(stack').path) = Len(Head(stack).path) + 1]_vars
    /\ [][(/\ Running
           /\ Head(stack).op = "visit_item"
           /\ Head(stack).arg.id = ImportAgain
           /\ Len(Head(stack).path) <= MaxDepth)
          => /\ Len(stack') = Len(stack) + 1
             /\ Head(stack').op = "visit_item"
             /\ Head(stack').arg.id = ModCyc
             /\ Head(stack').path = Head(stack).path]_vars

\* only the cyclic re-export takes the recursion beyond MaxDepth, and every
\* other run that has not ended can take a step
C12_OnlyCycleGoesDeep ==
    /\ BeyondMaxDepth
        => /\ Head(stack).arg.id \in {ModCyc, ImportAgain}
           /\ \A i \in 2..Len(Head(stack).path) : Head(stack).path[i].name = "cyc"
    /\ result.kind = "abort" => \E i \in 1..Len(rootItems) : rootItems[i] = ModCyc
    /\ (~Ended /\ result.kind # "abort") => ENABLED Next

\* a run whose crate root does not list the module cyc ends
C12_AcyclicTerminates ==
    (\A i \in 1..Len(rootItems) : rootItems[i] # ModCyc) => <>Ended

\* the head of the stack is a call of visit_impl on a non-blanket implementation block
AtImpl ==
    /\ Running
    /\ Head(stack).op = "visit_impl"
    /\ ItemFound(Head(stack).arg)
    /\ index[Head(stack).arg].inner.k = "Impl"
    /\ ~index[Head(stack).arg].inner.blanket_impl

\* the items the non-blanket implementation blocks of the index list
ImplMemberIds ==
    {id \in StaticIds :
        \E b \in {BlanketImpl, InherentImpl, TraitImpl} :
            /\ ~StaticIndex[b].inner.blanket_impl
            /\ \E n \in 1..Len(StaticIndex[b].inner.items) : StaticIndex[b].inner.items[n] = id}

\* the violation of `name` used as `tag` at the path `where`, which has no span
C13_Error(name, tag, where) ==
    [type_name |-> name, what |-> Loc(tag), in_what_type |-> where, location |-> 0]

\* C13: visit_impl on a non-blanket implementation block calls, with the path
\* of the owning type unchanged, visit_generics on the block's generics, then
\* visit_item with default visibility checking on each member, then visit_type
\* on the implemented trait tagged ImplementedTrait; a member whose marker is
\* not public is skipped, is never descended into and is named by no
\* violation; and the walks of the struct S and of the enum E report the
\* bound of the block's generics and the implemented trait at the owning type
C13_ImplMembers ==
    /\ [][AtImpl
          => LET imp == index[Head(stack).arg].inner
                 n == Len(imp.items)
                 t == IF imp.trait_ = NoType THEN 0 ELSE 1
             IN  /\ Len(stack') = Len(stack) + n + t
                 /\ \A i \in 1..(1 + n + t) : stack'[i].path = Head(stack).path
                 /\ stack'[1].op = "visit_generics"
                 /\ stack'[1].arg = imp.generics
                 /\ \A i \in 1..n :
                        /\ stack'[i + 1].op = "visit_item"
                        /\ stack'[i + 1].arg.id = imp.items[i]
                        /\ stack'[i + 1].arg.check = "Default"
                 /\ t = 1 => /\ stack'[n + 2].op = "visit_type"
                             /\ stack'[n + 2].what = Loc("ImplementedTrait")
                             /\ stack'[n + 2].arg = imp.trait_]_vars
    /\ [][(/\ VisitItemCalled
           /\ Head(stack).arg.id \in ImplMemberIds
           /\ last_type(Head(stack).path) \in {"Struct", "Union", "Enum"}
           /\ index[Head(stack).arg.id].visibility # "Public")
          => ReturnsAtOnce]_vars
    /\ [](WalkedIds \cap {<<0, 28>>, <<0, 29>>} = {})
    /\ [](\A e \in errors : e.in_what_type \notin
            {"mylib::S::from", "mylib::S::priv_m", "mylib::m::E::from", "mylib::m::U::priv_m"})
    /\ []((/\ SingleRoot
           /\ allowed = {}
           /\ result.kind = "Ok"
           /\ \E i \in 1..Len(rootItems) : rootItems[i] = StructS)
          => /\ C13_Error("ext::Widget", "TraitBound", "mylib::S") \in result.errors
             /\ C13_Error("ext::Gadget", "ImplementedTrait", "mylib::S") \in result.errors
             /\ [path |-> "mylib::S", id |-> <<0, 27>>] \in walked)
    /\ []((/\ SingleRoot
           /\ allowed = {}
           /\ result.kind = "Ok"
           /\ \E i \in 1..Len(rootItems) : rootItems[i] = ModM)
          => /\ C13_Error("ext::Widget", "TraitBound", "mylib::m::E") \in result.errors
             /\ C13_Error("ext::Gadget", "ImplementedTrait", "mylib::m::E") \in result.errors
             /\ [path |-> "mylib::m::U", id |-> <<0, 27>>] \in walked)

\* C13 witness: a finished run over the struct S and the module m: the public
\* method get was descended into from S and from the union U, the default-marked
\* members priv_m and from were not, and the implemented trait was reported at
\* S and at the enum E
C13_Witness ==
    /\ SingleRoot
    /\ rootItems = <<StructS, ModM>>
    /\ allowed = {}
    /\ result.kind = "Ok"
    /\ {[path |-> "mylib::S", id |-> <<0, 27>>], [path |-> "mylib::m::U", id |-> <<0, 27>>]}
            \subseteq walked
    /\ WalkedIds \cap {<<0, 28>>, <<0, 29>>} = {}
    /\ C13_Error("ext::Gadget", "ImplementedTrait", "mylib::S") \in result.errors
    /\ C13_Error("ext::Gadget", "ImplementedTrait", "mylib::m::E") \in result.errors

====
